---- MODULE Spec2Model ----
(***************************************************************************)
(* Hamiltonian neural network (deepchem/models/torch_models/hnn.py).       *)
(*                                                                         *)
(* HNN holds a multilayer perceptron mapping a phase-space vector to one   *)
(* scalar; hamiltonian() evaluates it, symplectic_gradient() differentiates*)
(* it and rearranges the gradient, forward() is what the framework calls.  *)
(* HNNModel wraps one HNN.  Arrays are modelled as torch stores them: a    *)
(* shape and a flat row-major data sequence, over the integers.            *)
(***************************************************************************)
EXTENDS Integers, Sequences, FiniteSets, TLC

VARIABLES
    d_input,    \* last-axis length the network was constructed with
    params,     \* the network's parameters
    training,   \* nn.Module.training, the mode flag
    X,          \* the caller's numpy batch
    z,          \* the caller's torch tensor holding the same batch
    ret         \* the last call: its name, what it returned, the state before it

vars == <<d_input, params, training, X, z, ret>>

---------------------------------------------------------------------------
(* Bounds of the model *)

MaxDim == 4         \* largest d_input
MaxRows == 2        \* most rows of a batch
MaxSeed == 1        \* batches per shape and dtype: seeds 0..MaxSeed
MaxParamSeed == 1   \* parameter settings per d_input: seeds 0..MaxParamSeed
HiddenWidth == 2    \* width of the hidden layer
ActClip == 2        \* where the activation saturates

(* Program constants *)

d_output == 1       \* the network's output width
MantissaBits == 24  \* significand of torch.float32

---------------------------------------------------------------------------
(* Arrays: numpy arrays and torch tensors *)

RECURSIVE Prod(_)
Prod(s) == IF s = <<>> THEN 1 ELSE Head(s) * Prod(Tail(s))

\* graph: what the value is differentiable with respect to (empty for a leaf).
Array(kind, dtype, shape, data, rg, graph) ==
    [err |-> "none", kind |-> kind, dtype |-> dtype, shape |-> shape,
     data |-> data, requires_grad |-> rg, graph |-> graph]

\* A call that raised: no value comes back.
Raise(e) ==
    [err |-> e, kind |-> "none", dtype |-> "none", shape |-> <<>>,
     data |-> <<>>, requires_grad |-> FALSE, graph |-> {}]

NoValue == Raise("none")

LastDim(t) == t.shape[Len(t.shape)]
Lead(t) == SubSeq(t.shape, 1, Len(t.shape) - 1)
NRows(t) == Prod(Lead(t))
Rows(t) == 1..NRows(t)
At(t, r, i) == t.data[(r - 1) * LastDim(t) + i]

Abs(v) == IF v < 0 THEN -v ELSE v

\* Spacing of the float32 grid at magnitude a.
RECURSIVE Ulp(_)
Ulp(a) == IF a < 2 ^ MantissaBits THEN 1 ELSE 2 * Ulp(a \div 2)

\* Round to the nearest float32, ties to the even significand.
Float32(v) ==
    LET a == Abs(v)
        u == Ulp(a)
        q == a \div u
        r == a % u
        m == IF 2 * r < u THEN q
             ELSE IF 2 * r > u THEN q + 1
             ELSE IF q % 2 = 0 THEN q ELSE q + 1
    IN  IF v < 0 THEN -(m * u) ELSE m * u

\* torch.tensor(X, dtype=torch.float32): a fresh float32 leaf tensor.
as_tensor(x) ==
    Array("tensor", "float32", x.shape,
          [j \in 1..Len(x.data) |-> Float32(x.data[j])], FALSE, {})

\* H.detach().cpu().numpy()
to_numpy(t) ==
    IF t.err # "none" THEN t
    ELSE Array("ndarray", t.dtype, t.shape, t.data, FALSE, {})

\* Row-major data of nrows rows of n entries, entry (r, i) being F[r, i].
Flat(nrows, n, F) ==
    [j \in 1..(nrows * n) |-> F[((j - 1) \div n) + 1, ((j - 1) % n) + 1]]

RECURSIVE SumTo(_, _)
SumTo(n, f) == IF n = 0 THEN 0 ELSE f[n] + SumTo(n - 1, f)

\* z.requires_grad_(True): sets the flag on the tensor itself and returns it.
requires_grad_(t) == [t EXCEPT !.requires_grad = TRUE]

\* t.squeeze(-1): drops the last axis when its length is 1.
squeeze_last(t) ==
    IF t.err # "none" THEN t
    ELSE IF Len(t.shape) > 0 /\ LastDim(t) = 1 THEN [t EXCEPT !.shape = Lead(t)]
    ELSE t

\* t.sum(): a scalar, shape ().
sum(t) ==
    IF t.err # "none" THEN t
    ELSE [t EXCEPT !.shape = <<>>, !.data = <<SumTo(Len(t.data), t.data)>>]

\* t[..., lo:hi] with 0 <= lo <= hi <= the last axis (Python's half-open slice).
Slice(t, lo, hi) ==
    IF t.err # "none" THEN t
    ELSE [t EXCEPT !.shape = Lead(t) \o <<hi - lo>>,
                   !.data = Flat(NRows(t), hi - lo,
                                 [r \in Rows(t), i \in 1..(hi - lo) |-> At(t, r, lo + i)])]

\* -t
Neg(t) ==
    IF t.err # "none" THEN t
    ELSE [t EXCEPT !.data = [j \in 1..Len(t.data) |-> -t.data[j]]]

\* torch.cat([a, b], dim=-1)
cat(a, b) ==
    IF a.err # "none" THEN a
    ELSE IF b.err # "none" THEN b
    ELSE IF Lead(a) # Lead(b) THEN Raise("shape")
    ELSE [a EXCEPT !.shape = Lead(a) \o <<LastDim(a) + LastDim(b)>>,
                   !.data = Flat(NRows(a), LastDim(a) + LastDim(b),
                                 [r \in Rows(a), i \in 1..(LastDim(a) + LastDim(b)) |->
                                     IF i <= LastDim(a) THEN At(a, r, i)
                                     ELSE At(b, r, i - LastDim(a))]),
                   !.graph = a.graph \cup b.graph]

---------------------------------------------------------------------------
(* The network: a multilayer perceptron d_input -> HiddenWidth -> 1 *)

\* A parameter setting of the network, one per seed.
InitParams(d, seed) ==
    [W1 |-> [j \in 1..HiddenWidth |-> [i \in 1..d |-> ((seed + i * j) % 3) - 1]],
     b1 |-> [j \in 1..HiddenWidth |-> (seed + j) % 2],
     W2 |-> [j \in 1..HiddenWidth |-> IF (seed + j) % 2 = 0 THEN j ELSE -j],
     b2 |-> seed]

ParamSet(d) == { InitParams(d, seed) : seed \in 0..MaxParamSeed }

\* The hidden activation: saturates at -ActClip and ActClip.
activation_fn(x) == IF x < -ActClip THEN -ActClip ELSE IF x > ActClip THEN ActClip ELSE x

\* Its derivative.
activation_grad(x) == IF -ActClip < x /\ x < ActClip THEN 1 ELSE 0

\* Input of hidden unit j on row r.
PreAct(p, t, r, j) ==
    p.b1[j] + SumTo(LastDim(t), [i \in 1..LastDim(t) |-> p.W1[j][i] * At(t, r, i)])

\* self.net(z): one output per row, shape (..., 1).
net(self, t) ==
    IF t.err # "none" THEN t
    ELSE IF Len(t.shape) = 0 \/ LastDim(t) # self.d_input THEN Raise("shape")
    ELSE IF t.dtype # "float32" THEN Raise("dtype")
    ELSE LET p == self.params
             out == [r \in Rows(t), o \in 1..d_output |->
                        p.b2 + SumTo(HiddenWidth,
                                   [j \in 1..HiddenWidth |->
                                       p.W2[j] * activation_fn(PreAct(p, t, r, j))])]
         IN  Array("tensor", "float32", Lead(t) \o <<d_output>>,
                   Flat(NRows(t), d_output, out), TRUE,
                   {"params"} \cup (IF t.requires_grad THEN {"z"} ELSE {}))

\* grad(s, z, create_graph=True)[0] for s = self.net(z).squeeze(-1).sum():
\* reverse-mode differentiation through the network, the result differentiable.
grad(self, s, t) ==
    IF s.err # "none" THEN s
    ELSE IF "z" \notin s.graph THEN Raise("no_grad")
    ELSE LET p == self.params
             g == [r \in Rows(t), i \in 1..LastDim(t) |->
                      SumTo(HiddenWidth,
                            [j \in 1..HiddenWidth |->
                                p.W2[j] * activation_grad(PreAct(p, t, r, j)) * p.W1[j][i]])]
         IN  Array("tensor", "float32", t.shape,
                   Flat(NRows(t), LastDim(t), g), TRUE, s.graph)

---------------------------------------------------------------------------
(* HNN and HNNModel methods.  A call gives back what it returned (or that  *)
(* it raised), its argument as the call left it, and the mode as it left it*)

Call(out, arg, mode) == [out |-> out, arg |-> arg, training |-> mode]

\* hamiltonian as it would be if it switched tracking on, as symplectic_gradient does.
hamiltonian_tracking(self, t) ==
    LET z1 == requires_grad_(t)
        H == squeeze_last(net(self, z1))
    IN  Call(H, z1, self.training)

\* HNN.hamiltonian
hamiltonian(self, t) ==
    LET H == squeeze_last(net(self, t))
    IN  Call(H, t, self.training)

\* symplectic_gradient without the sign flip and the swap of the halves.
symplectic_gradient_plain(self, t) ==
    LET z1 == IF ~t.requires_grad THEN requires_grad_(t) ELSE t
        H == squeeze_last(net(self, z1))
        grad_H == grad(self, sum(H), z1)
        dim == LastDim(z1) \div 2
    IN  Call(cat(Slice(grad_H, 0, dim), Slice(grad_H, dim, LastDim(z1))), z1, self.training)

\* symplectic_gradient returning dq/dt alone, the two halves not joined.
symplectic_gradient_half(self, t) ==
    LET z1 == IF ~t.requires_grad THEN requires_grad_(t) ELSE t
        H == squeeze_last(net(self, z1))
        grad_H == grad(self, sum(H), z1)
        dim == LastDim(z1) \div 2
    IN  Call(Slice(grad_H, dim, LastDim(z1)), z1, self.training)

\* symplectic_gradient that does not switch tracking on.
symplectic_gradient_untracked(self, t) ==
    LET H == squeeze_last(net(self, t))
        grad_H == grad(self, sum(H), t)
        dim == LastDim(t) \div 2
    IN  Call(cat(Slice(grad_H, dim, LastDim(t)), Neg(Slice(grad_H, 0, dim))),
             t, self.training)

\* symplectic_gradient taking two halves of floor(n/2) components each.
symplectic_gradient_truncating(self, t) ==
    LET z1 == IF ~t.requires_grad THEN requires_grad_(t) ELSE t
        H == squeeze_last(net(self, z1))
        grad_H == grad(self, sum(H), z1)
        dim == LastDim(z1) \div 2
    IN  Call(cat(Slice(grad_H, dim, 2 * dim), Neg(Slice(grad_H, 0, dim))),
             z1, self.training)

\* HNN.symplectic_gradient
symplectic_gradient(self, t) ==
    LET z1 == IF ~t.requires_grad THEN requires_grad_(t) ELSE t
        H == squeeze_last(net(self, z1))
        grad_H == grad(self, sum(H), z1)
        dim == LastDim(z1) \div 2
        dH_dq == Slice(grad_H, 0, dim)
        dH_dp == Slice(grad_H, dim, LastDim(z1))
        dq_dt == dH_dp
        dp_dt == Neg(dH_dq)
    IN  Call(cat(dq_dt, dp_dt), z1, self.training)

\* forward returning the energy.
forward_energy(self, t) == hamiltonian(self, t)

\* HNN.forward
forward(self, t) == symplectic_gradient(self, t)

\* predict_hamiltonian going through the module's forward entry point.
predict_hamiltonian_forward(self, x) ==
    LET model == [self EXCEPT !.training = FALSE]
        X_tensor == as_tensor(x)
        H == forward(model, X_tensor).out
    IN  Call(to_numpy(H), x, model.training)

\* predict_hamiltonian putting the mode back as it found it.
predict_hamiltonian_restoring(self, x) ==
    LET model == [self EXCEPT !.training = FALSE]
        X_tensor == as_tensor(x)
        H == hamiltonian(model, X_tensor).out
    IN  Call(to_numpy(H), x, self.training)

\* HNNModel.predict_hamiltonian
predict_hamiltonian(self, x) ==
    LET model == [self EXCEPT !.training = FALSE]
        X_tensor == as_tensor(x)
        H == hamiltonian(model, X_tensor).out
    IN  Call(to_numpy(H), x, model.training)

\* The wrapper's symplectic_gradient dispatching on the mode.
HNNModel_symplectic_gradient_dispatch(self, t) ==
    IF self.training THEN symplectic_gradient(self, t) ELSE hamiltonian(self, t)

\* HNNModel.symplectic_gradient
HNNModel_symplectic_gradient(self, t) == symplectic_gradient(self, t)

---------------------------------------------------------------------------
(* The batches a caller passes *)

Shapes(d) == {<<d>>} \cup { <<n, d>> : n \in 1..MaxRows }

Sample(n) == ((3 * n) % 5) - 2

\* A float64 batch holds values float32 cannot represent.
Batch(dtype, shape, seed) ==
    Array("ndarray", dtype, shape,
          [j \in 1..Prod(shape) |->
              IF dtype = "float64" THEN Sample(seed + j) * (2 ^ MantissaBits + 1)
              ELSE Sample(seed + j)],
          FALSE, {})

\* Batches whose last axis is d, and one batch of every other length.
Inputs(d) ==
    { Batch(dt, sh, seed) : dt \in {"float32", "float64"}, sh \in Shapes(d),
                            seed \in 0..MaxSeed }
    \cup { Batch("float32", <<1, dd>>, 0) : dd \in (1..MaxDim) \ {d} }

---------------------------------------------------------------------------
(* The state machine *)

Self == [d_input |-> d_input, params |-> params, training |-> training]

Pre == [training |-> training, params |-> params, requires_grad |-> z.requires_grad]

Returned(op, out) == [op |-> op, out |-> out, pre |-> Pre]

Init ==
    /\ d_input \in 1..MaxDim
    /\ params \in ParamSet(d_input)
    /\ training = TRUE
    /\ X \in Inputs(d_input)
    /\ z = as_tensor(X)
    /\ ret = [op |-> "init", out |-> NoValue,
              pre |-> [training |-> TRUE, params |-> params, requires_grad |-> FALSE]]

\* The caller takes another batch x and makes the tensor z of it.
NewInput ==
    \E x \in Inputs(d_input), rg \in BOOLEAN :
        /\ X' = x
        /\ z' = [as_tensor(x) EXCEPT !.requires_grad = rg]
        /\ ret' = Returned("new_input", NoValue)
        /\ UNCHANGED <<d_input, params, training>>

\* hnn.train()
Train ==
    /\ training' = TRUE
    /\ ret' = Returned("train", NoValue)
    /\ UNCHANGED <<d_input, params, X, z>>

\* hnn.eval()
Eval ==
    /\ training' = FALSE
    /\ ret' = Returned("eval", NoValue)
    /\ UNCHANGED <<d_input, params, X, z>>

\* hnn(z)
Forward ==
    LET c == forward(Self, z)
    IN  /\ ret' = Returned("forward", c.out)
        /\ z' = c.arg
        /\ training' = c.training
        /\ UNCHANGED <<d_input, params, X>>

\* hnn.hamiltonian(z)
Hamiltonian ==
    LET c == hamiltonian(Self, z)
    IN  /\ ret' = Returned("hamiltonian", c.out)
        /\ z' = c.arg
        /\ training' = c.training
        /\ UNCHANGED <<d_input, params, X>>

\* hnn.symplectic_gradient(z)
SymplecticGradient ==
    LET c == symplectic_gradient(Self, z)
    IN  /\ ret' = Returned("symplectic_gradient", c.out)
        /\ z' = c.arg
        /\ training' = c.training
        /\ UNCHANGED <<d_input, params, X>>

\* model.symplectic_gradient(z)
WrapperSymplecticGradient ==
    LET c == HNNModel_symplectic_gradient(Self, z)
    IN  /\ ret' = Returned("model_symplectic_gradient", c.out)
        /\ z' = c.arg
        /\ training' = c.training
        /\ UNCHANGED <<d_input, params, X>>

\* model.predict_hamiltonian(X)
PredictHamiltonian ==
    LET c == predict_hamiltonian(Self, X)
    IN  /\ ret' = Returned("predict_hamiltonian", c.out)
        /\ X' = c.arg
        /\ training' = c.training
        /\ UNCHANGED <<d_input, params, z>>

\* model.fit(dataset): the framework trains in training mode and its
\* optimizer leaves the network with other parameters.
Fit ==
    \E p \in ParamSet(d_input) :
        /\ training' = TRUE
        /\ params' = p
        /\ ret' = Returned("fit", NoValue)
        /\ UNCHANGED <<d_input, X, z>>

Next ==
    \/ NewInput
    \/ Train
    \/ Eval
    \/ Forward
    \/ Hamiltonian
    \/ SymplecticGradient
    \/ WrapperSymplecticGradient
    \/ PredictHamiltonian
    \/ Fit

Spec == Init /\ [][Next]_vars

---------------------------------------------------------------------------
(* What the last call started from *)

SelfPre == [d_input |-> d_input, params |-> ret.pre.params, training |-> ret.pre.training]

InMode(self, mode) == [self EXCEPT !.training = mode]

\* The caller's tensor as it was when the last call was made.
zPre == [z EXCEPT !.requires_grad = ret.pre.requires_grad]

\* The gradient of sum(H(z)) with respect to z.
GradH == grad(SelfPre, sum(hamiltonian(SelfPre, requires_grad_(zPre)).out), zPre)

SameValues(a, b) == a.err = b.err /\ a.shape = b.shape /\ a.data = b.data


---------------------------------------------------------------------------
(* Claims *)

\* C1: in evaluation mode forward(z) returns hamiltonian(z): one energy per
\* row, shape (N,), not a derivative of shape (N, 2k).
C1_EvalForwardIsHamiltonian ==
    (/\ ret.op = "forward" /\ ~ret.pre.training
     /\ Len(z.shape) = 2 /\ LastDim(z) = d_input /\ d_input % 2 = 0)
        => SameValues(ret.out, hamiltonian(SelfPre, zPre).out)

C3_SymplecticGradientIsHamilton ==
    (ret.op = "symplectic_gradient" /\ LastDim(z) = d_input /\ d_input % 2 = 0)
        => LET k == d_input \div 2
           IN  /\ ret.out.err = "none"
               /\ \A r \in Rows(z), i \in 1..k :
                      /\ At(ret.out, r, i) = At(GradH, r, k + i)
                      /\ At(ret.out, r, k + i) = -At(GradH, r, i)

C3_Witness ==
    /\ ret.op = "symplectic_gradient" /\ LastDim(z) = d_input /\ d_input = MaxDim
    /\ d_input % 2 = 0 /\ ret.out.err = "none"
    /\ \E r \in Rows(z), i \in 1..(d_input \div 2) :
           /\ At(GradH, r, i) # 0
           /\ At(GradH, r, i) # At(GradH, r, (d_input \div 2) + i)

\* C4: for an even input dimension 2k the output of symplectic_gradient(z)
\* has the shape of z: last axis 2k, the leading axes unchanged.
C4_SymplecticGradientKeepsShape ==
    (ret.op = "symplectic_gradient" /\ LastDim(z) = d_input /\ d_input % 2 = 0)
        => /\ ret.out.err = "none"
           /\ ret.out.shape = z.shape
           /\ Len(ret.out.data) = Len(z.data)

C4_Witness ==
    /\ ret.op = "symplectic_gradient" /\ ret.out.err = "none"
    /\ d_input % 2 = 0 /\ z.shape = <<MaxRows, d_input>>

\* C5: hamiltonian(z) returns the same energy in training mode and in
\* evaluation mode, and leaves the mode flag, the parameters and the input's
\* gradient-tracking flag as they were.
C5_HamiltonianIsPure ==
    ret.op = "hamiltonian"
        => /\ SameValues(ret.out, hamiltonian(InMode(SelfPre, TRUE), zPre).out)
           /\ SameValues(ret.out, hamiltonian(InMode(SelfPre, FALSE), zPre).out)
           /\ training = ret.pre.training
           /\ params = ret.pre.params
           /\ z.requires_grad = ret.pre.requires_grad
           /\ z = hamiltonian(SelfPre, zPre).arg

C5_Witness ==
    /\ ret.op = "hamiltonian" /\ ret.out.err = "none"
    /\ ~ret.pre.training /\ ~ret.pre.requires_grad
    /\ ret.out.shape = <<MaxRows>>

\* C6: whatever the mode before the call, predict_hamiltonian(X) returns the
\* values hamiltonian gives on the same batch as a float32 tensor, one value
\* per row, and leaves the parameters unchanged.
C6_PredictHamiltonianIsHamiltonian ==
    ret.op = "predict_hamiltonian"
        => /\ SameValues(ret.out, hamiltonian(SelfPre, as_tensor(X)).out)
           /\ ret.out.err = "none" => ret.out.shape = Lead(X)
           /\ LastDim(X) = d_input => ret.out.err = "none"
           /\ params = ret.pre.params

C6_Witness ==
    /\ ret.op = "predict_hamiltonian" /\ ret.pre.training /\ ret.out.err = "none"
    /\ X.shape = <<MaxRows, d_input>> /\ X.dtype = "float64"
    /\ as_tensor(X).data # X.data

\* C7: the wrapper's symplectic_gradient(z) returns exactly what the
\* module's symplectic_gradient(z) returns, in either mode, and leaves the
\* mode flag as it was.
C7_WrapperPassesThrough ==
    ret.op = "model_symplectic_gradient"
        => /\ ret.out = symplectic_gradient(InMode(SelfPre, TRUE), zPre).out
           /\ ret.out = symplectic_gradient(InMode(SelfPre, FALSE), zPre).out
           /\ z = symplectic_gradient(SelfPre, zPre).arg
           /\ training = ret.pre.training

C7_Witness ==
    /\ ret.op = "model_symplectic_gradient" /\ ret.out.err = "none"
    /\ ~ret.pre.training /\ d_input % 2 = 0

\* C8: symplectic_gradient on an input without gradient tracking does not
\* fail for want of tracking: it returns what it returns for the same input
\* with tracking enabled beforehand, and on return the caller's tensor has
\* tracking enabled.
C8_TrackingEnabledInPlace ==
    (ret.op = "symplectic_gradient" /\ ~ret.pre.requires_grad)
        => /\ ret.out.err # "no_grad"
           /\ LastDim(z) = d_input => ret.out.err = "none"
           /\ ret.out = symplectic_gradient(SelfPre, requires_grad_(zPre)).out
           /\ z.requires_grad
           /\ z = requires_grad_(zPre)

C8_Witness ==
    /\ ret.op = "symplectic_gradient" /\ ~ret.pre.requires_grad
    /\ ret.out.err = "none" /\ z.requires_grad

\* C9 as stated: on an input of odd last axis n (the network built for n)
\* symplectic_gradient raises no error and the output's last axis has fewer
\* than n components.
C9_OddInputTruncated ==
    (/\ ret.op = "symplectic_gradient" /\ LastDim(z) = d_input
     /\ d_input % 2 = 1 /\ d_input > 1)
        => /\ ret.out.err = "none"
           /\ LastDim(ret.out) < LastDim(z)

\* C9 amended: on an input of odd last axis n (the network built for n)
\* symplectic_gradient raises no error and splits at k = floor(n/2); nothing
\* is dropped: the output has the shape of the input, its first n - k
\* components the last n - k components of the gradient and its last k
\* components the negated first k components of the gradient.
C9_OddInputMisSplit ==
    (ret.op = "symplectic_gradient" /\ LastDim(z) = d_input /\ d_input % 2 = 1)
        => LET n == d_input
               k == n \div 2
           IN  /\ ret.out.err = "none"
               /\ ret.out.shape = z.shape
               /\ \A r \in Rows(z) :
                      /\ \A i \in 1..(n - k) : At(ret.out, r, i) = At(GradH, r, k + i)
                      /\ \A i \in 1..k : At(ret.out, r, (n - k) + i) = -At(GradH, r, i)

C9_Witness ==
    /\ ret.op = "symplectic_gradient" /\ LastDim(z) = d_input /\ d_input % 2 = 1
    /\ d_input > 1 /\ ret.out.err = "none"
    /\ \E r \in Rows(z) : At(GradH, r, d_input) # 0

\* C10: predict_hamiltonian leaves the module in evaluation mode, also when
\* it was called in training mode, and the module stays in evaluation mode
\* until train() or the framework's fit() switches it back.
C10_PredictLeavesEvalMode ==
    /\ [](ret.op = "predict_hamiltonian" => ~training)
    /\ [][(~training /\ training') => ret'.op \in {"train", "fit"}]_vars

C10_Witness ==
    ret.op = "predict_hamiltonian" /\ ret.pre.training /\ ~training

====
